---- MODULE Spec2Model ----
(***************************************************************************)
(* Invoice link sharing backend (src/main.py, src/schemas.py).             *)
(*                                                                         *)
(* The service is a set of HTTP handlers over one document collection.     *)
(* State:                                                                  *)
(*   db        the store handle of the process, None when no connection    *)
(*             was configured;                                             *)
(*   stamps    whether the store gateway stamps the documents it inserts   *)
(*             with created_at and updated_at (serialize_invoice provides  *)
(*             for both keys);                                             *)
(*   invoice   the collection "invoice", in insertion order;               *)
(*   nextOid   the store's identifier generator;                           *)
(*   response  the last request and its answer;                            *)
(*   posted    the log of the creates that were answered 200: the          *)
(*             identifier returned and the body sent.                      *)
(*                                                                         *)
(* Values.  Every Python value is a record tagged with its type in field   *)
(* t.  Text that the program parses or builds character by character       *)
(* (identifiers, e-mail addresses, dates) is a tuple of one-character      *)
(* strings; text it only copies is a TLA+ string.  A float is a finite     *)
(* number counted in thousandths, or one of inf, -inf, nan.                *)
(***************************************************************************)
EXTENDS Integers, Sequences, FiniteSets, TLC

VARIABLES db, stamps, invoice, nextOid, response, posted

vars == <<db, stamps, invoice, nextOid, response, posted>>

(***************************************************************************)
(* Bounds of the model.                                                    *)
(***************************************************************************)
\* Creates accepted by the store in one behaviour.
MaxInvoices == 2

(***************************************************************************)
(* Python values.                                                          *)
(***************************************************************************)
None == [t |-> "NoneType"]
Str(s) == [t |-> "str", v |-> s]
List(s) == [t |-> "list", v |-> s]
Date(y, m, d) == [t |-> "date", y |-> y, m |-> m, d |-> d]
DateTime(y, m, d, ss) == [t |-> "datetime", y |-> y, m |-> m, d |-> d, ss |-> ss]
Oid(nibbles) == [t |-> "ObjectId", v |-> nibbles]

\* Floats: Fin(n) is n/1000.  The numbers the requests below carry are chosen so
\* that their products and sums are exact, or fall on no tie of round(), and the
\* fixed-point results are those of IEEE doubles.  json.loads reads a literal too
\* large for a double (1e999) as inf.
Scale == 1000
Fin(n) == [t |-> "float", k |-> "fin", v |-> n]
Inf == [t |-> "float", k |-> "inf", v |-> 0]
NegInf == [t |-> "float", k |-> "ninf", v |-> 0]
NaN == [t |-> "float", k |-> "nan", v |-> 0]

IsFloat(x) == x.t = "float"
IsFinite(x) == x.k = "fin"

\* a * b
FMul(a, b) ==
    IF a.k = "nan" \/ b.k = "nan" THEN NaN
    ELSE IF a.k = "fin" /\ b.k = "fin" THEN Fin((a.v * b.v) \div Scale)
    ELSE IF (a.k = "fin" /\ a.v = 0) \/ (b.k = "fin" /\ b.v = 0) THEN NaN
    ELSE LET neg(x) == x.k = "ninf" \/ (x.k = "fin" /\ x.v < 0)
         IN IF neg(a) = neg(b) THEN Inf ELSE NegInf

\* a + b
FAdd(a, b) ==
    IF a.k = "nan" \/ b.k = "nan" THEN NaN
    ELSE IF a.k = "fin" /\ b.k = "fin" THEN Fin(a.v + b.v)
    ELSE IF a.k = "fin" THEN b
    ELSE IF b.k = "fin" THEN a
    ELSE IF a.k = b.k THEN a ELSE NaN

FNeg(a) ==
    CASE a.k = "fin" -> Fin(-a.v)
      [] a.k = "inf" -> NegInf
      [] a.k = "ninf" -> Inf
      [] OTHER -> NaN

\* a - b
FSub(a, b) == FAdd(a, FNeg(b))

\* a > b (every comparison with nan is false)
FGt(a, b) ==
    /\ a.k # "nan" /\ b.k # "nan"
    /\ \/ a.k = "inf" /\ b.k # "inf"
       \/ b.k = "ninf" /\ a.k # "ninf"
       \/ a.k = "fin" /\ b.k = "fin" /\ a.v > b.v

\* a >= b
FGe(a, b) ==
    /\ a.k # "nan" /\ b.k # "nan"
    /\ \/ a.k = "inf"
       \/ b.k = "ninf"
       \/ a.k = "fin" /\ b.k = "fin" /\ a.v >= b.v

\* max(a, b): the first argument stays unless the second is greater.
PyMax(a, b) == IF FGt(b, a) THEN b ELSE a

\* round(x, 2): to the nearest hundredth, a tie to the even hundredth; inf and
\* nan come back unchanged.
Round2(x) ==
    IF x.k # "fin" THEN x
    ELSE LET step == Scale \div 100
             q == x.v \div step
             r == x.v % step
         IN IF 2 * r < step THEN Fin(q * step)
            ELSE IF 2 * r > step THEN Fin((q + 1) * step)
            ELSE IF q % 2 = 0 THEN Fin(q * step) ELSE Fin((q + 1) * step)

\* sum(xs), starting from 0.
RECURSIVE PySum(_)
PySum(xs) == IF xs = <<>> THEN Fin(0)
             ELSE FAdd(PySum(SubSeq(xs, 1, Len(xs) - 1)), xs[Len(xs)])

(***************************************************************************)
(* Characters.                                                             *)
(***************************************************************************)
HexLower == <<"0", "1", "2", "3", "4", "5", "6", "7", "8", "9",
              "a", "b", "c", "d", "e", "f">>
HexUpper == <<"0", "1", "2", "3", "4", "5", "6", "7", "8", "9",
              "A", "B", "C", "D", "E", "F">>
Lowercase == <<"a", "b", "c", "d", "e", "f", "g", "h", "i", "j", "k", "l", "m",
               "n", "o", "p", "q", "r", "s", "t", "u", "v", "w", "x", "y", "z">>
Uppercase == <<"A", "B", "C", "D", "E", "F", "G", "H", "I", "J", "K", "L", "M",
               "N", "O", "P", "Q", "R", "S", "T", "U", "V", "W", "X", "Y", "Z">>

Range(s) == {s[i] : i \in DOMAIN s}
IndexOf(s, c) == CHOOSE i \in DOMAIN s : s[i] = c

DecimalDigits == Range(SubSeq(HexLower, 1, 10))
HexLowerDigits == Range(HexLower)
HexDigits == Range(HexLower) \cup Range(HexUpper)
CapitalLetters == Range(Uppercase)
AtomChars == Range(Lowercase) \cup Range(Uppercase) \cup DecimalDigits

IsDigit(c) == c \in DecimalDigits
DigitVal(c) == IndexOf(HexLower, c) - 1
DigitChar(n) == HexLower[n + 1]
IsHex(c) == c \in HexDigits
HexVal(c) == IF c \in HexLowerDigits THEN IndexOf(HexLower, c) - 1
             ELSE IndexOf(HexUpper, c) - 1
ToLower(c) == IF c \in CapitalLetters THEN Lowercase[IndexOf(Uppercase, c)] ELSE c

(***************************************************************************)
(* bson.ObjectId: twelve bytes, written as 24 hexadecimal digits.          *)
(***************************************************************************)
\* ObjectId(s) raises unless s is 24 hexadecimal digits (either case).
ObjectIdValid(s) == Len(s) = 24 /\ \A i \in 1..Len(s) : IsHex(s[i])
\* ObjectId(s)
ObjectId(s) == Oid([i \in 1..Len(s) |-> HexVal(s[i])])
\* str(oid): lower-case hexadecimal.
OidStr(oid) == [i \in 1..Len(oid.v) |-> HexLower[oid.v[i] + 1]]
\* The n-th identifier the store generates.
NewOid(n) == Oid([i \in 1..24 |-> IF i = 1 THEN 10 ELSE IF i = 24 THEN n % 16 ELSE 0])

(***************************************************************************)
(* datetime.date and datetime.datetime.                                    *)
(***************************************************************************)
IsLeap(y) == (y % 4 = 0 /\ y % 100 # 0) \/ y % 400 = 0
DaysInMonth(y, m) ==
    IF m = 2 THEN (IF IsLeap(y) THEN 29 ELSE 28)
    ELSE IF m \in {4, 6, 9, 11} THEN 30 ELSE 31

\* The decimal number written by the digits s[a..b].
RECURSIVE Number(_, _, _)
Number(s, a, b) == IF b < a THEN 0 ELSE 10 * Number(s, a, b - 1) + DigitVal(s[b])

\* A date field accepts the text YYYY-MM-DD of a calendar date.
DateTextValid(s) ==
    /\ Len(s) = 10
    /\ s[5] = "-" /\ s[8] = "-"
    /\ \A i \in {1, 2, 3, 4, 6, 7, 9, 10} : IsDigit(s[i])
    /\ LET y == Number(s, 1, 4)
           m == Number(s, 6, 7)
           d == Number(s, 9, 10)
       IN y >= 1 /\ m \in 1..12 /\ d \in 1..DaysInMonth(y, m)
ParseDate(s) == Date(Number(s, 1, 4), Number(s, 6, 7), Number(s, 9, 10))

\* n written with w digits, zero padded.
RECURSIVE Digits(_, _)
Digits(n, w) == IF w = 0 THEN <<>> ELSE Append(Digits(n \div 10, w - 1), DigitChar(n % 10))

\* x.isoformat() for a date or a datetime (UTC, whole seconds).
IsoFormat(x) ==
    LET day == Digits(x.y, 4) \o <<"-">> \o Digits(x.m, 2) \o <<"-">> \o Digits(x.d, 2)
    IN IF x.t = "date" THEN day
       ELSE day \o <<"T">> \o Digits(x.ss \div 3600, 2) \o <<":">>
                \o Digits((x.ss \div 60) % 60, 2) \o <<":">> \o Digits(x.ss % 60, 2)
                \o <<"+", "0", "0", ":", "0", "0">>

\* hasattr(x, "isoformat")
HasIsoFormat(x) == x.t \in {"date", "datetime"}

(***************************************************************************)
(* pydantic.EmailStr: the address is checked and returned normalised, its  *)
(* domain in lower case.                                                   *)
(***************************************************************************)
AtPositions(s) == {i \in DOMAIN s : s[i] = "@"}
IsAtomChar(c) == c \in AtomChars
EmailValid(s) ==
    /\ Cardinality(AtPositions(s)) = 1
    /\ LET at == CHOOSE i \in AtPositions(s) : TRUE
           dots == {i \in at + 1..Len(s) : s[i] = "."}
       IN /\ at > 1
          /\ \A i \in 1..at - 1 : IsAtomChar(s[i]) \/ s[i] \in {".", "_", "-"}
          /\ s[1] # "." /\ s[at - 1] # "."
          /\ dots # {}
          /\ \A i \in at + 1..Len(s) : IsAtomChar(s[i]) \/ s[i] \in {".", "-"}
          /\ \A i \in dots : i > at + 1 /\ i < Len(s) /\ i + 1 \notin dots
EmailNormalized(s) ==
    LET at == CHOOSE i \in AtPositions(s) : TRUE
    IN [i \in 1..Len(s) |-> IF i > at THEN ToLower(s[i]) ELSE s[i]]

(***************************************************************************)
(* src/schemas.py: the pydantic models.  A request body is the dict that   *)
(* json.loads made of it; validation gives the set of fields in error and, *)
(* when that set is empty, the model's field values (model_dump()).        *)
(***************************************************************************)
Has(d, k) == k \in DOMAIN d

\* str = Field(...)
StrFieldOk(d, k) == Has(d, k) /\ d[k].t = "str"
\* Optional[str] = Field(None)
OptStrFieldOk(d, k) == Has(d, k) => d[k].t \in {"str", "NoneType"}
\* str = Field(default)
DefStrFieldOk(d, k) == Has(d, k) => d[k].t = "str"
\* float = Field(..., ge=0): inf passes, nan and negative numbers do not.
FloatGe0(x) == x.t = "float" /\ FGe(x, Fin(0))
FloatFieldOk(d, k) == Has(d, k) /\ FloatGe0(d[k])
\* float = Field(default, ge=0)
DefFloatFieldOk(d, k) == Has(d, k) => FloatGe0(d[k])
\* date = Field(...)
DateOk(x) == x.t = "str" /\ DateTextValid(x.v)
\* EmailStr = Field(...)
EmailOk(x) == x.t = "str" /\ EmailValid(x.v)

Get(d, k, default) == IF Has(d, k) THEN d[k] ELSE default

\* class InvoiceItem(BaseModel)
InvoiceItemErrors(it) ==
    {k \in {"description", "quantity", "unit_price"} :
        CASE k = "description" -> ~StrFieldOk(it, k)
          [] k = "quantity" -> ~DefFloatFieldOk(it, k)
          [] k = "unit_price" -> ~FloatFieldOk(it, k)}

InvoiceItem(it) ==
    [description |-> it["description"],
     quantity |-> Get(it, "quantity", Fin(Scale)),
     unit_price |-> it["unit_price"]]

InvoiceFields ==
    {"customer_name", "customer_email", "customer_address", "invoice_number",
     "issue_date", "due_date", "currency", "items", "notes", "status",
     "subtotal", "tax", "discount", "total"}

\* class Invoice(BaseModel): the fields of the body p that fail validation.
InvoiceErrors(p) ==
    {k \in InvoiceFields :
        CASE k = "customer_name" -> ~StrFieldOk(p, k)
          [] k = "customer_email" -> ~(Has(p, k) /\ EmailOk(p[k]))
          [] k \in {"customer_address", "invoice_number", "notes"} -> ~OptStrFieldOk(p, k)
          [] k = "issue_date" -> ~(Has(p, k) /\ DateOk(p[k]))
          [] k = "due_date" -> ~(Has(p, k) => (p[k].t = "NoneType" \/ DateOk(p[k])))
          [] k \in {"currency", "status"} -> ~DefStrFieldOk(p, k)
          [] k = "items" ->
                ~(Has(p, k) =>
                    /\ p[k].t = "list"
                    /\ \A i \in DOMAIN p[k].v : InvoiceItemErrors(p[k].v[i]) = {})
          [] k \in {"subtotal", "total"} -> ~FloatFieldOk(p, k)
          [] k \in {"tax", "discount"} -> ~DefFloatFieldOk(p, k)}

\* Invoice(**p).model_dump(), for a body that validates.
Invoice(p) ==
    [customer_name |-> p["customer_name"],
     customer_email |-> Str(EmailNormalized(p["customer_email"].v)),
     customer_address |-> Get(p, "customer_address", None),
     invoice_number |-> Get(p, "invoice_number", None),
     issue_date |-> ParseDate(p["issue_date"].v),
     due_date |-> IF Has(p, "due_date") /\ p["due_date"].t = "str"
                  THEN ParseDate(p["due_date"].v) ELSE None,
     currency |-> Get(p, "currency", Str("USD")),
     items |-> IF Has(p, "items")
               THEN List([i \in DOMAIN p["items"].v |-> InvoiceItem(p["items"].v[i])])
               ELSE List(<<>>),
     notes |-> Get(p, "notes", None),
     status |-> Get(p, "status", Str("unpaid")),
     subtotal |-> p["subtotal"],
     tax |-> Get(p, "tax", Fin(0)),
     discount |-> Get(p, "discount", Fin(0)),
     total |-> p["total"]]

(***************************************************************************)
(* The document store: the collection "invoice", in insertion order.       *)
(***************************************************************************)
\* create_document(collection, data): appends a copy of data under a fresh
\* identifier, stamped with the insertion time when the gateway stamps, and
\* returns the identifier's text.
StoredDocument(data, n, stamped) ==
    LET withId == ("_id" :> NewOid(n)) @@ data
        now == DateTime(2024, 3, 1, n)
    IN IF stamped THEN ("created_at" :> now) @@ ("updated_at" :> now) @@ withId
       ELSE withId

\* get_documents(collection, {}, limit): the first `limit` documents.
get_documents(coll, limit) == SubSeq(coll, 1, IF limit < Len(coll) THEN limit ELSE Len(coll))

\* collection.find_one({"_id": oid}): a copy of the first match, or None.
find_one(coll, oid) ==
    LET hits == {i \in DOMAIN coll : coll[i]["_id"] = oid}
    IN IF hits = {} THEN None
       ELSE coll[CHOOSE i \in hits : \A j \in hits : i <= j]

\* db.list_collection_names(): a collection exists once it holds a document.
list_collection_names(coll) == IF coll = <<>> THEN <<>> ELSE <<"invoice">>

(***************************************************************************)
(* src/main.py: helpers.                                                   *)
(***************************************************************************)
DateKeys == {"issue_date", "due_date", "created_at", "updated_at"}

\* serialize_invoice(doc): rewrites the dict it is given and returns it.
serialize_invoice(doc) ==
    IF doc = None \/ DOMAIN doc = {} THEN doc
    ELSE LET renamed ==
                 IF Has(doc, "_id")
                 THEN ("id" :> Str(OidStr(doc["_id"]))) @@ [k \in DOMAIN doc \ {"_id"} |-> doc[k]]
                 ELSE ("id" :> None) @@ doc
         IN [k \in DOMAIN renamed |->
                IF k \in DateKeys /\ HasIsoFormat(renamed[k])
                THEN Str(IsoFormat(renamed[k])) ELSE renamed[k]]

\* dict.get(key) and dict.get(key, default)
DictGet(d, k) == Get(d, k, None)

\* Mutant of public_view: the serialised document is returned as it is.
public_view_everything(doc) == doc

\* The safe subset public_invoice returns.
public_view(doc) ==
    [id |-> DictGet(doc, "id"),
     invoice_number |-> DictGet(doc, "invoice_number"),
     customer_name |-> DictGet(doc, "customer_name"),
     customer_email |-> DictGet(doc, "customer_email"),
     customer_address |-> DictGet(doc, "customer_address"),
     issue_date |-> DictGet(doc, "issue_date"),
     due_date |-> DictGet(doc, "due_date"),
     currency |-> DictGet(doc, "currency"),
     items |-> Get(doc, "items", List(<<>>)),
     notes |-> DictGet(doc, "notes"),
     status |-> DictGet(doc, "status"),
     subtotal |-> DictGet(doc, "subtotal"),
     tax |-> DictGet(doc, "tax"),
     discount |-> DictGet(doc, "discount"),
     total |-> DictGet(doc, "total")]

\* Mutant of ComputeTotals: the total is taken from the rounded subtotal.
ComputeTotalsFromRounded(data) ==
    LET subtotal == Round2(PySum([i \in DOMAIN data.items.v |->
                            FMul(data.items.v[i].quantity, data.items.v[i].unit_price)]))
        total == FSub(FAdd(subtotal, data.tax), data.discount)
    IN [data EXCEPT !.subtotal = subtotal,
                    !.total = Round2(PyMax(total, Fin(0)))]

\* The totals create_invoice writes into the dumped model.
ComputeTotals(data) ==
    LET subtotal == PySum([i \in DOMAIN data.items.v |->
                            FMul(data.items.v[i].quantity, data.items.v[i].unit_price)])
        total == FSub(FAdd(subtotal, data.tax), data.discount)
    IN [data EXCEPT !.subtotal = Round2(subtotal),
                    !.total = Round2(PyMax(total, Fin(0)))]

(***************************************************************************)
(* The framework: a handler's return value is rendered as JSON, and        *)
(* json.dumps(allow_nan=False) raises on inf and nan, which the server     *)
(* answers with 500, as it answers every exception a handler lets out.     *)
(***************************************************************************)
FloatsOf(doc) ==
    {doc[k] : k \in {k \in DOMAIN doc : doc[k].t = "float"}}
    \cup (IF Has(doc, "items")
          THEN UNION {{doc["items"].v[i].quantity, doc["items"].v[i].unit_price} :
                        i \in DOMAIN doc["items"].v}
          ELSE {})
JsonCompliant(docs) == \A i \in DOMAIN docs : \A x \in FloatsOf(docs[i]) : IsFinite(x)

Http(op, req, status, body) == [op |-> op, req |-> req, status |-> status, body |-> body]
InternalServerError(op, req) == Http(op, req, 500, Str("Internal Server Error"))
HTTPException(op, req, status, detail) == Http(op, req, status, [detail |-> Str(detail)])

(***************************************************************************)
(* Requests the clients send.                                              *)
(***************************************************************************)
With(d, k, v) == (k :> v) @@ d
Without(d, ks) == [k \in DOMAIN d \ ks |-> d[k]]

MailLower == Str(<<"a", "n", "n", "@", "x", ".", "i", "o">>)
MailUpper == Str(<<"A", "n", "n", "@", "X", ".", "I", "O">>)
MailBad == Str(<<"a", "n", "n", ".", "x">>)
LeapDay == Str(<<"2", "0", "2", "4", "-", "0", "2", "-", "2", "9">>)
NewYear == Str(<<"2", "0", "2", "5", "-", "0", "1", "-", "0", "1">>)
NoSuchDay == Str(<<"2", "0", "2", "3", "-", "0", "2", "-", "2", "9">>)

Item(description, quantity, unit_price) ==
    [description |-> Str(description), quantity |-> quantity, unit_price |-> unit_price]
Widget == Item("Widget", Fin(2000), Fin(9990))

\* Two widgets at 9.99, tax 1.5: subtotal 19.98, total 21.48.
Plain ==
    [customer_name |-> Str("Ann"), customer_email |-> MailLower, issue_date |-> LeapDay,
     items |-> List(<<Widget>>), subtotal |-> Fin(0), tax |-> Fin(1500),
     discount |-> Fin(0), total |-> Fin(0)]

\* Every optional field given, two items, and the client's own totals.
Full ==
    [customer_name |-> Str("Bob"), customer_email |-> MailLower,
     customer_address |-> Str("1 Main St"), invoice_number |-> Str("INV-1"),
     issue_date |-> LeapDay, due_date |-> NewYear, currency |-> Str("EUR"),
     items |-> List(<<Widget, Item("Gear", Fin(3000), Fin(125))>>),
     notes |-> Str("net 30"), status |-> Str("paid"),
     subtotal |-> Fin(5000), tax |-> Fin(125), discount |-> Fin(1000), total |-> Fin(7000)]

\* No items, discount 5.
Discounted ==
    [customer_name |-> Str("Cy"), customer_email |-> MailLower, issue_date |-> LeapDay,
     discount |-> Fin(5000), subtotal |-> Fin(0), total |-> Fin(0)]

\* One item of 0.004 (quantity left to its default), tax 0.004.
SubCent ==
    [customer_name |-> Str("Di"), customer_email |-> MailLower, issue_date |-> LeapDay,
     items |-> List(<<[description |-> Str("Drop"), unit_price |-> Fin(4)]>>),
     subtotal |-> Fin(0), tax |-> Fin(4), total |-> Fin(0)]

\* The domain of the address in capitals.
Capitals == With(With(Plain, "customer_email", MailUpper), "customer_name", Str("Ed"))

\* 1e999 is read as inf: nothing of a thing without price.
Priceless ==
    With(With(Plain, "items", List(<<Item("Air", Fin(0), Inf)>>)), "customer_name", Str("Flo"))

\* Empty texts.
Blank == With(With(Plain, "items", List(<<Item("", Fin(1000), Fin(1000))>>)), "customer_name", Str(""))

ValidBodies == {Plain, Full, Discounted, SubCent, Capitals, Priceless, Blank}

NegativeItem(k) == With(Plain, "items", List(<<With(Widget, k, Fin(-1000))>>))

InvalidBodies ==
    {Without(Plain, {"subtotal", "total"}),
     Without(Plain, {"customer_name"}),
     Without(Plain, {"customer_email"}),
     Without(Plain, {"issue_date"}),
     With(Plain, "customer_email", MailBad),
     With(Plain, "issue_date", NoSuchDay),
     With(Plain, "due_date", MailBad),
     NegativeItem("quantity"),
     NegativeItem("unit_price"),
     With(Plain, "items", List(<<Without(Widget, {"description"})>>)),
     With(Plain, "tax", Fin(-1)),
     With(Plain, "discount", Fin(-1)),
     With(Plain, "subtotal", Fin(-1)),
     With(Plain, "total", Fin(-1)),
     With(Plain, "tax", NaN)}

Bodies == ValidBodies \cup InvalidBodies

\* Path parameters: every stored identifier in either case, one that is well
\* formed and stored nowhere, and two that are not identifiers.
UpperCased(s) == [i \in DOMAIN s |-> IF IsHex(s[i]) THEN HexUpper[HexVal(s[i]) + 1] ELSE s[i]]
StoredIds == {OidStr(invoice[i]["_id"]) : i \in DOMAIN invoice}
AbsentId == [i \in 1..24 |-> "f"]
ShortId == <<"a", "0", "1">>
NotHexId == [i \in 1..24 |-> IF i = 24 THEN "g" ELSE "0"]
PathIds == StoredIds \cup {UpperCased(s) : s \in StoredIds} \cup {OidStr(NewOid(1)), AbsentId, ShortId, NotHexId}

\* os.getenv: the variables are set together, or only the URL, or neither.
Environments ==
    {[DATABASE_URL |-> TRUE, DATABASE_NAME |-> TRUE],
     [DATABASE_URL |-> TRUE, DATABASE_NAME |-> FALSE],
     [DATABASE_URL |-> FALSE, DATABASE_NAME |-> FALSE]}

\* ?limit=
DefaultLimit == 50
Limits == {1, 2, DefaultLimit}

(***************************************************************************)
(* src/main.py: the routes.  FastAPI validates the body and the path       *)
(* before it calls the handler, and answers 422 when the body fails.       *)
(***************************************************************************)
Database == [t |-> "Database"]
Frame == UNCHANGED <<db, stamps, invoice, nextOid, posted>>

\* GET /
read_root ==
    /\ response' = Http("read_root", None, 200,
                        [message |-> Str("Invoice Link Sharing Backend Running")])
    /\ Frame

\* Mutant of test_database: the listing is not guarded, and its exception
\* fails the request.
test_database_unguarded(url_set, name_set, raises) ==
    /\ response' =
         IF db # None /\ raises
         THEN InternalServerError("test_database", [raises |-> raises])
         ELSE Http("test_database", [raises |-> raises], 200,
                   [backend |-> Str("Running"),
                    database |-> IF db # None THEN Str("Connected") ELSE Str("Not Available"),
                    database_url |-> IF url_set THEN Str("Set") ELSE Str("Not Set"),
                    database_name |-> IF name_set THEN Str("Set") ELSE Str("Not Set"),
                    connection_status |-> IF db # None THEN Str("Connected") ELSE Str("Not Connected"),
                    collections |-> IF db # None
                                    THEN List(list_collection_names(invoice)) ELSE List(<<>>)])
    /\ Frame

\* GET /test
test_database(url_set, name_set, raises) ==
    /\ response' =
         Http("test_database", [raises |-> raises], 200,
              [backend |-> Str("Running"),
               database |-> IF db # None THEN Str("Connected") ELSE Str("Not Available"),
               database_url |-> IF url_set THEN Str("Set") ELSE Str("Not Set"),
               database_name |-> IF name_set THEN Str("Set") ELSE Str("Not Set"),
               connection_status |-> IF db # None THEN Str("Connected") ELSE Str("Not Connected"),
               collections |-> IF db # None /\ ~raises
                               THEN List(list_collection_names(invoice)) ELSE List(<<>>)])
    /\ Frame

\* POST /api/invoices
create_invoice(payload) ==
    IF InvoiceErrors(payload) # {}
    THEN /\ response' = Http("create_invoice", payload, 422, [detail |-> InvoiceErrors(payload)])
         /\ Frame
    ELSE IF db = None
    THEN /\ response' = HTTPException("create_invoice", payload, 500, "Database not available")
         /\ Frame
    ELSE LET data == ComputeTotals(Invoice(payload))
             doc == StoredDocument(data, nextOid, stamps)
             inserted_id == OidStr(doc["_id"])
         IN /\ Len(invoice) < MaxInvoices
            /\ invoice' = Append(invoice, doc)
            /\ nextOid' = nextOid + 1
            /\ posted' = Append(posted, [id |-> inserted_id, payload |-> payload])
            /\ response' = Http("create_invoice", payload, 200,
                                [id |-> Str(inserted_id),
                                 share_url |-> Str(<<"/public/invoices/">> \o inserted_id)])
            /\ UNCHANGED <<db, stamps>>

\* Mutant of list_invoices: the documents serialised are the store's own, not
\* copies, so the rewriting shows in the collection.
list_invoices_in_place(limit) ==
    IF db = None
    THEN /\ response' = HTTPException("list_invoices", limit, 500, "Database not available")
         /\ Frame
    ELSE LET docs == get_documents(invoice, limit)
             out == [i \in DOMAIN docs |-> serialize_invoice(docs[i])]
         IN /\ response' = IF JsonCompliant(out) THEN Http("list_invoices", limit, 200, List(out))
                           ELSE InternalServerError("list_invoices", limit)
            /\ invoice' = [i \in DOMAIN invoice |-> IF i \in DOMAIN out THEN out[i] ELSE invoice[i]]
            /\ UNCHANGED <<db, stamps, nextOid, posted>>

\* GET /api/invoices?limit=
list_invoices(limit) ==
    /\ response' =
         IF db = None
         THEN HTTPException("list_invoices", limit, 500, "Database not available")
         ELSE LET docs == get_documents(invoice, limit)
                  out == [i \in DOMAIN docs |-> serialize_invoice(docs[i])]
              IN IF JsonCompliant(out) THEN Http("list_invoices", limit, 200, List(out))
                 ELSE InternalServerError("list_invoices", limit)
    /\ Frame

\* Mutant of get_invoice: the store handle is tested before the identifier.
get_invoice_store_first(invoice_id) ==
    /\ response' =
         IF db = None
         THEN HTTPException("get_invoice", invoice_id, 500, "Database not available")
         ELSE IF ~ObjectIdValid(invoice_id)
         THEN HTTPException("get_invoice", invoice_id, 400, "Invalid invoice id")
         ELSE LET doc == find_one(invoice, ObjectId(invoice_id))
              IN IF doc = None
                 THEN HTTPException("get_invoice", invoice_id, 404, "Invoice not found")
                 ELSE LET out == serialize_invoice(doc)
                      IN IF JsonCompliant(<<out>>) THEN Http("get_invoice", invoice_id, 200, out)
                         ELSE InternalServerError("get_invoice", invoice_id)
    /\ Frame

\* GET /api/invoices/{invoice_id}
get_invoice(invoice_id) ==
    /\ response' =
         IF ~ObjectIdValid(invoice_id)
         THEN HTTPException("get_invoice", invoice_id, 400, "Invalid invoice id")
         ELSE IF db = None
         THEN InternalServerError("get_invoice", invoice_id)
         ELSE LET doc == find_one(invoice, ObjectId(invoice_id))
              IN IF doc = None
                 THEN HTTPException("get_invoice", invoice_id, 404, "Invoice not found")
                 ELSE LET out == serialize_invoice(doc)
                      IN IF JsonCompliant(<<out>>) THEN Http("get_invoice", invoice_id, 200, out)
                         ELSE InternalServerError("get_invoice", invoice_id)
    /\ Frame

\* GET /public/invoices/{invoice_id}
public_invoice(invoice_id) ==
    /\ response' =
         IF ~ObjectIdValid(invoice_id)
         THEN HTTPException("public_invoice", invoice_id, 400, "Invalid invoice id")
         ELSE IF db = None
         THEN InternalServerError("public_invoice", invoice_id)
         ELSE LET doc == find_one(invoice, ObjectId(invoice_id))
              IN IF doc = None
                 THEN HTTPException("public_invoice", invoice_id, 404, "Invoice not found")
                 ELSE LET out == public_view(serialize_invoice(doc))
                      IN IF JsonCompliant(<<out>>) THEN Http("public_invoice", invoice_id, 200, out)
                         ELSE InternalServerError("public_invoice", invoice_id)
    /\ Frame

(***************************************************************************)
(* The service: the store handle is set when the process starts and never  *)
(* changes; the collection starts empty; requests arrive in any order.     *)
(***************************************************************************)
Init ==
    /\ db \in {None, Database}
    /\ stamps \in BOOLEAN
    /\ invoice = <<>>
    /\ nextOid = 1
    /\ posted = <<>>
    /\ response = Http("none", None, 0, None)

Next ==
    \/ read_root
    \/ \E env \in Environments, raises \in BOOLEAN :
          test_database(env.DATABASE_URL, env.DATABASE_NAME, raises)
    \/ \E limit \in Limits : list_invoices(limit)
    \/ \E invoice_id \in PathIds : get_invoice(invoice_id)
    \/ \E invoice_id \in PathIds : public_invoice(invoice_id)
    \/ \E payload \in Bodies : create_invoice(payload)

Spec == Init /\ [][Next]_vars

(***************************************************************************)
(* Vocabulary of the properties.                                           *)
(***************************************************************************)
Zero == Fin(0)
IsCreate == response.op = "create_invoice"
IsGet == response.op = "get_invoice"
IsPublic == response.op = "public_invoice"
IsList == response.op = "list_invoices"
IsTest == response.op = "test_database"

\* The sum over the items of quantity * unit_price, not rounded.
RECURSIVE LineSum(_)
LineSum(items) ==
    IF items = <<>> THEN Zero
    ELSE FAdd(LineSum(SubSeq(items, 1, Len(items) - 1)),
              FMul(items[Len(items)].quantity, items[Len(items)].unit_price))

\* max(x, 0) rounded to cents.
Clamped(x) == Round2(IF FGt(Zero, x) THEN Zero ELSE x)

\* The stored documents made from a body that passed validation, with the
\* validated body each was made from.
Stored == {[doc |-> invoice[i], data |-> Invoice(posted[i].payload), payload |-> posted[i].payload] :
             i \in DOMAIN invoice}

(***************************************************************************)
(* C1.  As claimed: the stored subtotal is the rounded sum of the items    *)
(* and the stored total is round(max(subtotal + tax - discount, 0), 2)     *)
(* with the stored, already rounded, subtotal in the formula.              *)
(***************************************************************************)
C1_TotalFromStoredSubtotal ==
    \A s \in Stored :
        /\ s.doc.subtotal = Round2(LineSum(s.data.items.v))
        /\ s.doc.total = Clamped(FSub(FAdd(s.doc.subtotal, s.data.tax), s.data.discount))

(***************************************************************************)
(* C1, amended.  The stored subtotal is the rounded sum of the items; the  *)
(* stored total is round(max(sum + tax - discount, 0), 2) with the sum     *)
(* before rounding; neither depends on the subtotal and total the client   *)
(* sent.                                                                   *)
(***************************************************************************)
C1_TotalFromUnroundedSum ==
    \A s \in Stored :
        /\ s.doc.subtotal = Round2(LineSum(s.data.items.v))
        /\ s.doc.total = Clamped(FSub(FAdd(LineSum(s.data.items.v), s.data.tax), s.data.discount))
        /\ \A x \in {Zero, Fin(123450), Inf} :
              LET other == ComputeTotals(Invoice(With(With(s.payload, "subtotal", x), "total", x)))
              IN other.subtotal = s.doc.subtotal /\ other.total = s.doc.total

\* A stored invoice whose sum is not a whole number of cents, whose total
\* differs from the one the rounded subtotal gives, and whose client sent
\* another subtotal.
C1_Witness ==
    \E s \in Stored :
        /\ LineSum(s.data.items.v) # Round2(LineSum(s.data.items.v))
        /\ s.doc.total # Clamped(FSub(FAdd(s.doc.subtotal, s.data.tax), s.data.discount))
        /\ \E t \in Stored : t.payload["subtotal"] # t.doc.subtotal

(***************************************************************************)
(* C2.  As claimed: a body without subtotal and total that meets every     *)
(* other constraint is accepted with 200 and an id, and stored with the    *)
(* computed totals.                                                        *)
(***************************************************************************)
C2_TotalsMayBeOmitted ==
    (/\ IsCreate
     /\ db # None
     /\ ~Has(response.req, "subtotal") /\ ~Has(response.req, "total")
     /\ InvoiceErrors(response.req) \subseteq {"subtotal", "total"})
    => /\ response.status = 200
       /\ \E i \in DOMAIN invoice : Str(OidStr(invoice[i]["_id"])) = response.body.id

\* The identifier names a stored document.
IsStoredId(id) == \E i \in DOMAIN invoice : invoice[i]["_id"] = ObjectId(id)

(***************************************************************************)
(* C3.  As claimed: with a store connection, both single-invoice routes    *)
(* answer 400 to an identifier that is not well formed, 404 to a well      *)
(* formed one that is not stored and 200 to one that is stored; the status *)
(* is a function of identifier and store alone, so the routes agree.       *)
(***************************************************************************)
C3_LookupStatus ==
    ((IsGet \/ IsPublic) /\ db # None)
    => response.status = (IF ~ObjectIdValid(response.req) THEN 400
                          ELSE IF ~IsStoredId(response.req) THEN 404 ELSE 200)

(***************************************************************************)
(* C4.  As claimed: without a store connection create, list and both gets  *)
(* answer 500 whatever the body or identifier, nothing is stored, and      *)
(* diagnostics answers 200.                                                *)
(***************************************************************************)
C4_AlwaysStoreUnavailable ==
    db = None
    => /\ invoice = <<>>
       /\ (IsCreate \/ IsList \/ IsGet \/ IsPublic) => response.status = 500
       /\ IsTest => response.status = 200

(***************************************************************************)
(* C4, amended.  Without a store connection: a body that fails validation  *)
(* is answered 422 and an identifier that is not well formed 400, before   *)
(* the store is looked at; every other create, list and get is answered    *)
(* 500; nothing is stored; diagnostics answers 200.                        *)
(***************************************************************************)
C4_StoreUnavailable ==
    db = None
    => /\ invoice = <<>>
       /\ IsCreate => response.status = (IF InvoiceErrors(response.req) # {} THEN 422 ELSE 500)
       /\ IsList => response.status = 500
       /\ (IsGet \/ IsPublic)
            => response.status = (IF ObjectIdValid(response.req) THEN 500 ELSE 400)
       /\ IsTest => response.status = 200

\* A valid create refused for want of a store.
C4_Witness ==
    /\ db = None /\ IsCreate /\ response.status = 500
    /\ InvoiceErrors(response.req) = {}

\* The keys of the public view.
PublicKeys ==
    {"id", "invoice_number", "customer_name", "customer_email", "customer_address",
     "issue_date", "due_date", "currency", "items", "notes", "status", "subtotal",
     "tax", "discount", "total"}

(***************************************************************************)
(* C5.  A 200 answer of the public route has exactly the fifteen keys of   *)
(* the public view, whatever other keys the stored document has, and never *)
(* the key _id.                                                            *)
(***************************************************************************)
C5_PublicKeysOnly ==
    (IsPublic /\ response.status = 200)
    => /\ DOMAIN response.body = PublicKeys
       /\ Cardinality(DOMAIN response.body) = 15
       /\ "_id" \notin DOMAIN response.body

\* The public view of a stored document that has keys outside the schema.
C5_Witness ==
    /\ IsPublic /\ response.status = 200
    /\ \E i \in DOMAIN invoice :
          /\ invoice[i]["_id"] = ObjectId(response.req)
          /\ {"created_at", "updated_at", "_id"} \subseteq DOMAIN invoice[i]

\* The top-level fields a client sets, the items and the totals apart.
ClientFields == InvoiceFields \ {"items", "subtotal", "total"}

(***************************************************************************)
(* C6.  As claimed: once POST has answered id X, GET /api/invoices/X       *)
(* answers 200 with id X, every field the client sent equal to what it     *)
(* sent (dates as ISO text, items in order), and the computed subtotal and *)
(* total.                                                                  *)
(***************************************************************************)
C6_RoundTrip ==
    \A i \in DOMAIN posted :
        (IsGet /\ db # None /\ response.req = posted[i].id)
        => LET sent == posted[i].payload
               computed == ComputeTotals(Invoice(sent))
           IN /\ response.status = 200
              /\ response.body.id = Str(posted[i].id)
              /\ \A k \in ClientFields \cap DOMAIN sent : response.body[k] = sent[k]
              /\ Has(sent, "items") =>
                    /\ Len(response.body.items.v) = Len(sent.items.v)
                    /\ \A j \in DOMAIN sent.items.v : \A k \in DOMAIN sent.items.v[j] :
                          response.body.items.v[j][k] = sent.items.v[j][k]
              /\ response.body.subtotal = computed.subtotal
              /\ response.body.total = computed.total

\* The step is a create that answered 200.
Created == response'.op = "create_invoice" /\ response'.status = 200 /\ posted' # posted

(***************************************************************************)
(* C7.  The collection only grows, and only by a create that answers 200:  *)
(* every step keeps the stored documents as they are, in place and         *)
(* unchanged; a step that is not a successful create leaves the collection *)
(* as it is; a successful create adds exactly one document at the end.     *)
(***************************************************************************)
C7_AppendOnly ==
    [][/\ Len(invoice') >= Len(invoice)
       /\ SubSeq(invoice', 1, Len(invoice)) = invoice
       /\ Created => Len(invoice') = Len(invoice) + 1
       /\ ~Created => invoice' = invoice]_vars

\* An owner read that answered the serialised form of a stored document
\* while the store kept the document under _id with its dates.
C7_Witness ==
    /\ IsGet /\ response.status = 200
    /\ \E i \in DOMAIN invoice :
          /\ Str(OidStr(invoice[i]["_id"])) = response.body.id
          /\ invoice[i].issue_date.t = "date"
          /\ response.body.issue_date.t = "str"
    /\ Len(invoice) > 1

(***************************************************************************)
(* C8.  As claimed: every stored invoice has subtotal >= 0 and total >= 0, *)
(* and the total is 0 when the discount exceeds subtotal + tax.            *)
(***************************************************************************)
C8_TotalsNonNegative ==
    \A i \in DOMAIN invoice :
        LET doc == invoice[i]
        IN /\ FGe(doc.subtotal, Zero)
           /\ FGe(doc.total, Zero)
           /\ FGt(doc.discount, FAdd(doc.subtotal, doc.tax)) => doc.total = Zero

\* What the data model forbids in a creation payload.
Negative(d, k) == Has(d, k) /\ d[k].t = "float" /\ FGt(Zero, d[k])
BreaksDataModel(p) ==
    \/ ~Has(p, "customer_name") \/ ~Has(p, "customer_email") \/ ~Has(p, "issue_date")
    \/ p["customer_name"] = Str("")
    \/ ~EmailOk(p["customer_email"])
    \/ ~DateOk(p["issue_date"])
    \/ Has(p, "due_date") /\ p["due_date"] # None /\ ~DateOk(p["due_date"])
    \/ \E k \in {"tax", "discount", "subtotal", "total"} : Negative(p, k)
    \/ /\ Has(p, "items")
       /\ \E j \in DOMAIN p["items"].v :
             \/ Has(p["items"].v[j], "description") /\ p["items"].v[j]["description"] = Str("")
             \/ Negative(p["items"].v[j], "quantity")
             \/ Negative(p["items"].v[j], "unit_price")

(***************************************************************************)
(* C9.  As claimed: a body that breaks a constraint of the data model      *)
(* (customer_name, customer_email or issue_date missing; customer_name     *)
(* empty; an item description empty; a negative number; a malformed email  *)
(* or date) is answered 422 and never stored.                              *)
(***************************************************************************)
C9_ViolationsRejected ==
    /\ (IsCreate /\ BreaksDataModel(response.req)) => response.status = 422
    /\ \A i \in DOMAIN posted : ~BreaksDataModel(posted[i].payload)

\* The keys of the diagnostics answer.
TestKeys ==
    {"backend", "database", "database_url", "database_name", "connection_status",
     "collections"}

====
